---- MODULE Spec2Model ----
(***************************************************************************)
(* Model of lintrunner_adapters/adapters/newlines_linter.py.               *)
(*                                                                         *)
(* The state is one run of the adapter over args.filenames (the two loops  *)
(* of __main__), the file system it reads, and the platform flag.  After a *)
(* run, the caller (lintrunner -a) may write the displayed replacements    *)
(* back to the files and run the adapter again.                            *)
(*                                                                         *)
(* A file is a sequence of bytes (0..255); a Python str is a sequence of   *)
(* Unicode code points.  A Python Optional value is a sequence of length   *)
(* at most one: None is << >> and a present value v is << v >>.            *)
(* String literals write ' where the source has a backquote.               *)
(***************************************************************************)
EXTENDS Integers, Sequences, FiniteSets, TLC

VARIABLES
    IS_WINDOWS,     \* the platform flag imported by the module
    files,          \* the file system: path -> [readable, data]
    filenames,      \* args.filenames
    pc,             \* position of the running program
    lint_message,   \* the value check_file last returned
    applied,        \* the finding whose replacement was last written back, if any
    initial,        \* the bytes the file held before any fix was applied
    steps,          \* how many replacements have been written back
    idx,            \* position of the first loop of __main__ in args.filenames
    lint_messages,  \* the list __main__ collects
    didx,           \* position of the second loop of __main__ in lint_messages
    displayed       \* the findings displayed so far, in order

vars == <<IS_WINDOWS, files, filenames, pc, lint_message, applied, initial,
          steps, idx, lint_messages, didx, displayed>>

----------------------------------------------------------------------------
(* Bounds and alphabets *)

MaxLen == 5

MaxFiles == 3

NEWLINE == 10

CARRIAGE_RETURN == 13

LINTER_CODE == "NEWLINE"

\* LF, CR, "a", and the two bytes of U+00E9 (0xC3 0xA9).  0xA9 alone, or 0xC3
\* not followed by a continuation byte, is not valid UTF-8.
Bytes == {NEWLINE, CARRIAGE_RETURN, 97, 195, 169}

ByteStrings == UNION {[1..n -> Bytes] : n \in 0..MaxLen}

Paths == {"p1", "p2"}

None == << >>

Some(v) == <<v>>

----------------------------------------------------------------------------
(* Python built-ins used by check_file *)

\* The index of the first NEWLINE of data at or after i, or Len(data) if none.
RECURSIVE line_end(_, _)
line_end(data, i) ==
    IF i >= Len(data) THEN Len(data)
    ELSE IF data[i] = NEWLINE THEN i
    ELSE line_end(data, i + 1)

\* f.readlines() of a file opened "rb": each line runs up to and including the
\* next LF; the last one may lack it.
RECURSIVE readlines(_)
readlines(data) ==
    IF data = << >> THEN << >>
    ELSE LET k == line_end(data, 1)
         IN  <<SubSeq(data, 1, k)>> \o readlines(SubSeq(data, k + 1, Len(data)))

\* b"".join(lines)
RECURSIVE join(_)
join(lines) ==
    IF lines = << >> THEN << >> ELSE Head(lines) \o join(Tail(lines))

is_continuation(b) == b >= 128 /\ b <= 191

\* The length of the UTF-8 sequence a lead byte announces; 0 for a byte that
\* cannot start one.
sequence_length(b) ==
    IF b < 128 THEN 1
    ELSE IF b >= 194 /\ b <= 223 THEN 2
    ELSE IF b >= 224 /\ b <= 239 THEN 3
    ELSE IF b >= 240 /\ b <= 244 THEN 4
    ELSE 0

\* The second byte of a 3- or 4-byte sequence has a narrower range after
\* 0xE0, 0xED, 0xF0 and 0xF4 (overlong forms, surrogates, beyond U+10FFFF).
second_byte_ok(lead, b) ==
    /\ is_continuation(b)
    /\ (lead = 224 => b >= 160)
    /\ (lead = 237 => b <= 159)
    /\ (lead = 240 => b >= 144)
    /\ (lead = 244 => b <= 143)

sequence_ok(data, i, n) ==
    /\ n > 0
    /\ i + n - 1 <= Len(data)
    /\ (n >= 2 => second_byte_ok(data[i], data[i + 1]))
    /\ \A j \in (i + 2)..(i + n - 1) : is_continuation(data[j])

code_point(data, i, n) ==
    IF n = 1 THEN data[i]
    ELSE IF n = 2 THEN (data[i] % 32) * 64 + (data[i + 1] % 64)
    ELSE IF n = 3 THEN (data[i] % 16) * 4096 + (data[i + 1] % 64) * 64
                       + (data[i + 2] % 64)
    ELSE (data[i] % 8) * 262144 + (data[i + 1] % 64) * 4096
         + (data[i + 2] % 64) * 64 + (data[i + 3] % 64)

RECURSIVE decode_from(_, _)
decode_from(data, i) ==
    IF i > Len(data) THEN [ok |-> TRUE, text |-> << >>]
    ELSE LET n == sequence_length(data[i])
         IN  IF ~sequence_ok(data, i, n) THEN [ok |-> FALSE, text |-> << >>]
             ELSE LET rest == decode_from(data, i + n)
                  IN  IF rest.ok
                      THEN [ok |-> TRUE,
                            text |-> <<code_point(data, i, n)>> \o rest.text]
                      ELSE rest

\* A decode that replaces nothing and rejects nothing: every byte is taken as
\* one character.
decode_lenient(data) == [ok |-> TRUE, text |-> data]

\* bytes.decode("utf-8"): ok is FALSE where Python raises UnicodeDecodeError.
decode(data) == decode_from(data, 1)

\* Removes a single trailing ch.
rstrip_once(text, ch) ==
    IF text # << >> /\ text[Len(text)] = ch
    THEN SubSeq(text, 1, Len(text) - 1)
    ELSE text

\* str.rstrip(ch) for a one-character ch.
RECURSIVE rstrip_all(_, _)
rstrip_all(text, ch) ==
    IF text # << >> /\ text[Len(text)] = ch
    THEN rstrip_all(SubSeq(text, 1, Len(text) - 1), ch)
    ELSE text

rstrip(text, ch) == rstrip_all(text, ch)

----------------------------------------------------------------------------
(* check_file *)

LintMessage(path, name, original, replacement, description) ==
    [path |-> path, line |-> None, char |-> None, code |-> LINTER_CODE,
     severity |-> "error", name |-> name, original |-> original,
     replacement |-> replacement, description |-> description]

Return(value) == [raised |-> None, value |-> value]

Raise(exception) == [raised |-> Some(exception), value |-> None]

\* Only the number of lines is compared; the length of the line is not.
single_line_file(lines) == Len(lines) = 1

\* The only byte is also compared with NEWLINE.
single_newline_file(lines) == Len(lines) = 1 /\ lines[1] = <<NEWLINE>>

\* len(lines) == len(lines[0]) == 1
single_byte_file(lines) == Len(lines) = Len(lines[1]) /\ Len(lines[1]) = 1

single_byte_message(filename) ==
    LintMessage(filename, "testestTrailing newline", None, None,
                "Trailing newline found. Run 'lintrunner --take NEWLINE -a' to apply changes.")

decode_failure_message(filename) ==
    LintMessage(filename, "Decoding failure", None, None,
                "utf-8 decoding failed due to UnicodeDecodeError")

\* len(lines[-1]) == 1 and lines[-1][0] == NEWLINE
last_line_is_newline(lines) ==
    Len(lines[Len(lines)]) = 1 /\ lines[Len(lines)][1] = NEWLINE

trailing_newline_result(filename, lines) ==
    LET d == decode(join(lines))
    IN  IF ~d.ok THEN Return(Some(decode_failure_message(filename)))
        ELSE Return(Some(LintMessage(filename, "Trailing newline",
                 Some(d.text), Some(rstrip(d.text, NEWLINE) \o <<NEWLINE>>),
                 "Trailing newline found. Run 'lintrunner --take NEWLINE -a' to apply changes.")))

never_skip(is_windows) == FALSE

\* if IS_WINDOWS: return None
skip_dos_check(is_windows) == is_windows

\* len(line) >= 2 and line[-1] == NEWLINE and line[-2] == CARRIAGE_RETURN
is_dos_line(line) ==
    /\ Len(line) >= 2
    /\ line[Len(line)] = NEWLINE
    /\ line[Len(line) - 1] = CARRIAGE_RETURN

\* Strips every trailing CR and LF of the line, as line.rstrip(b"\r\n") would.
strip_all_cr(line) ==
    rstrip_all(SubSeq(line, 1, Len(line) - 1), CARRIAGE_RETURN) \o <<NEWLINE>>

\* line[:-2] + b"\n"
fixed_line(line) == SubSeq(line, 1, Len(line) - 2) \o <<NEWLINE>>

\* The list lines after the loop over enumerate(lines).
fix_dos_lines(lines) ==
    [i \in 1..Len(lines) |->
        IF is_dos_line(lines[i]) THEN fixed_line(lines[i]) ELSE lines[i]]

has_changes(lines) == \E i \in 1..Len(lines) : is_dos_line(lines[i])

dos_newline_result(filename, original_lines, lines) ==
    LET o == decode(join(original_lines))
        r == decode(join(lines))
    IN  IF ~o.ok \/ ~r.ok THEN Return(Some(decode_failure_message(filename)))
        ELSE Return(Some(LintMessage(filename, "DOS newline",
                 Some(o.text), Some(r.text),
                 "DOS newline found. Run 'lintrunner --take NEWLINE -a' to apply changes.")))

\* check_file(filename) run against the file system fs with the platform
\* flag is_windows.
check_file(filename, fs, is_windows) ==
    IF ~fs[filename].readable THEN Raise("OSError")
    ELSE LET lines == readlines(fs[filename].data)
         IN  IF lines = << >> THEN Return(None)
             ELSE IF single_byte_file(lines)
                  THEN Return(Some(single_byte_message(filename)))
             ELSE IF last_line_is_newline(lines)
                  THEN trailing_newline_result(filename, lines)
             ELSE IF skip_dos_check(is_windows) THEN Return(None)
             ELSE IF has_changes(lines)
                  THEN dos_newline_result(filename, lines, fix_dos_lines(lines))
             ELSE Return(None)

----------------------------------------------------------------------------
(* The file system and the caller that applies replacements *)

File(data) == [readable |-> TRUE, data |-> data]

\* A path whose open() raises OSError.
Unreadable == [readable |-> FALSE, data |-> << >>]

\* The UTF-8 bytes of one code point.
encode_code_point(c) ==
    IF c < 128 THEN <<c>>
    ELSE IF c < 2048 THEN <<192 + (c \div 64), 128 + (c % 64)>>
    ELSE IF c < 65536
         THEN <<224 + (c \div 4096), 128 + ((c \div 64) % 64), 128 + (c % 64)>>
    ELSE <<240 + (c \div 262144), 128 + ((c \div 4096) % 64),
           128 + ((c \div 64) % 64), 128 + (c % 64)>>

\* str.encode("utf-8"): what is written when a replacement becomes the file.
RECURSIVE encode(_)
encode(text) ==
    IF text = << >> THEN << >>
    ELSE encode_code_point(Head(text)) \o encode(Tail(text))

\* The displayed findings that carry a replacement for path p.
patches(p) ==
    {i \in 1..Len(displayed) :
        displayed[i].path = p /\ displayed[i].replacement # None}

----------------------------------------------------------------------------
(* __main__ *)

\* As MainCheck, but the finding is inserted at the front of the list.
MainCheckPrepend ==
    /\ pc = "check"
    /\ idx <= Len(filenames)
    /\ LET r == check_file(filenames[idx], files, IS_WINDOWS)
       IN  /\ r.raised = None
           /\ lint_message' = r.value
           /\ lint_messages' =
                IF r.value # None
                THEN <<r.value[1]>> \o lint_messages
                ELSE lint_messages
    /\ idx' = idx + 1
    /\ pc' = IF idx < Len(filenames) THEN "check"
             ELSE IF lint_messages' = << >> THEN "done"
             ELSE "display"
    /\ UNCHANGED <<IS_WINDOWS, files, filenames, applied, initial, steps,
                   didx, displayed>>

\* One iteration of the first loop whose check_file returns.
MainCheck ==
    /\ pc = "check"
    /\ idx <= Len(filenames)
    /\ LET r == check_file(filenames[idx], files, IS_WINDOWS)
       IN  /\ r.raised = None
           /\ lint_message' = r.value
           /\ lint_messages' =
                IF r.value # None
                THEN Append(lint_messages, r.value[1])
                ELSE lint_messages
    /\ idx' = idx + 1
    /\ pc' = IF idx < Len(filenames) THEN "check"
             ELSE IF lint_messages' = << >> THEN "done"
             ELSE "display"
    /\ UNCHANGED <<IS_WINDOWS, files, filenames, applied, initial, steps,
                   didx, displayed>>

\* As MainCheckRaises, but the error is caught and the loop goes on with the
\* next file.
MainCheckSkipsUnreadable ==
    /\ pc = "check"
    /\ idx <= Len(filenames)
    /\ check_file(filenames[idx], files, IS_WINDOWS).raised # None
    /\ idx' = idx + 1
    /\ pc' = IF idx < Len(filenames) THEN "check"
             ELSE IF lint_messages = << >> THEN "done"
             ELSE "display"
    /\ UNCHANGED <<IS_WINDOWS, files, filenames, lint_message, applied,
                   initial, steps, lint_messages, didx, displayed>>

\* One iteration of the first loop whose check_file raises: nothing catches
\* the error, the program ends with a traceback.
MainCheckRaises ==
    /\ pc = "check"
    /\ idx <= Len(filenames)
    /\ check_file(filenames[idx], files, IS_WINDOWS).raised # None
    /\ pc' = "crashed"
    /\ UNCHANGED <<IS_WINDOWS, files, filenames, lint_message, applied,
                   initial, steps, idx, lint_messages, didx, displayed>>

\* One iteration of the second loop: lint_message.display().
MainDisplay ==
    /\ pc = "display"
    /\ didx <= Len(lint_messages)
    /\ displayed' = Append(displayed, lint_messages[didx])
    /\ didx' = didx + 1
    /\ pc' = IF didx < Len(lint_messages) THEN "display" ELSE "done"
    /\ UNCHANGED <<IS_WINDOWS, files, filenames, lint_message, applied,
                   initial, steps, idx, lint_messages>>

\* The caller writes every displayed replacement to its file and starts the
\* adapter again on the same arguments.
ApplyFix ==
    /\ pc = "done"
    /\ \E p \in DOMAIN files : patches(p) # {}
    /\ files' = [p \in DOMAIN files |->
                    IF patches(p) # {}
                    THEN File(encode(
                             displayed[CHOOSE i \in patches(p) : TRUE]
                                 .replacement[1]))
                    ELSE files[p]]
    /\ applied' = displayed
    /\ steps' = steps + 1
    /\ pc' = "check"
    /\ idx' = 1
    /\ didx' = 1
    /\ lint_message' = None
    /\ lint_messages' = << >>
    /\ displayed' = << >>
    /\ UNCHANGED <<IS_WINDOWS, filenames, initial>>

Start ==
    /\ IS_WINDOWS \in BOOLEAN
    /\ pc = "check"
    /\ lint_message = None
    /\ applied = << >>
    /\ initial = files
    /\ steps = 0
    /\ idx = 1
    /\ lint_messages = << >>
    /\ didx = 1
    /\ displayed = << >>

\* One path, holding any byte string of at most MaxLen bytes, or unreadable.
Init ==
    /\ filenames = <<"p1">>
    /\ files \in [{"p1"} -> {File(b) : b \in ByteStrings} \cup {Unreadable}]
    /\ Start

Next == MainCheck \/ MainCheckRaises \/ MainDisplay \/ ApplyFix

Spec == Init /\ [][Next]_vars

\* Files that take each path of check_file: empty, one byte, one line, blank
\* last line, DOS line endings, blank last line after bytes that do not decode.
SampleFiles ==
    {Unreadable, File(<< >>), File(<<NEWLINE>>), File(<<97, NEWLINE>>),
     File(<<97, NEWLINE, NEWLINE>>), File(<<97, CARRIAGE_RETURN, NEWLINE>>),
     File(<<169, NEWLINE, NEWLINE>>)}

\* One to MaxFiles arguments (nargs="+"), a path may be listed more than once.
MainInit ==
    /\ filenames \in UNION {[1..n -> Paths] : n \in 1..MaxFiles}
    /\ files \in [Paths -> SampleFiles]
    /\ Start

MainSpec == MainInit /\ [][Next]_vars

----------------------------------------------------------------------------
(* Vocabulary of the properties, stated on the bytes of the file and not     *)
(* through the operators above.                                              *)

\* The bytes of the only file of Spec.
content == files["p1"].data

\* check_file has returned for the only file of Spec; lint_message is its value.
Checked == pc \in {"display", "done"} /\ idx = 2

InRange(b, lo, hi) == b >= lo /\ b <= hi

\* The well-formed UTF-8 byte sequences of the Unicode Standard (table 3-7).
WellFormedSequence(s) ==
    \/ Len(s) = 1 /\ InRange(s[1], 0, 127)
    \/ Len(s) = 2 /\ InRange(s[1], 194, 223) /\ InRange(s[2], 128, 191)
    \/ /\ Len(s) = 3
       /\ \/ s[1] = 224 /\ InRange(s[2], 160, 191)
          \/ InRange(s[1], 225, 236) /\ InRange(s[2], 128, 191)
          \/ s[1] = 237 /\ InRange(s[2], 128, 159)
          \/ InRange(s[1], 238, 239) /\ InRange(s[2], 128, 191)
       /\ InRange(s[3], 128, 191)
    \/ /\ Len(s) = 4
       /\ \/ s[1] = 240 /\ InRange(s[2], 144, 191)
          \/ InRange(s[1], 241, 243) /\ InRange(s[2], 128, 191)
          \/ s[1] = 244 /\ InRange(s[2], 128, 143)
       /\ InRange(s[3], 128, 191)
       /\ InRange(s[4], 128, 191)

RECURSIVE WellFormedFrom(_, _)
WellFormedFrom(b, i) ==
    \/ i > Len(b)
    \/ \E n \in 1..4 :
          /\ i + n - 1 <= Len(b)
          /\ WellFormedSequence(SubSeq(b, i, i + n - 1))
          /\ WellFormedFrom(b, i + n)

WellFormedUtf8(b) == WellFormedFrom(b, 1)

EndsInTwoLF(b) ==
    Len(b) >= 2 /\ b[Len(b)] = NEWLINE /\ b[Len(b) - 1] = NEWLINE

AllLF(b) == \A i \in 1..Len(b) : b[i] = NEWLINE

\* Some line ends in CR LF: a CR is directly followed by an LF.
HasCRLF(b) ==
    \E i \in 1..(Len(b) - 1) : b[i] = CARRIAGE_RETURN /\ b[i + 1] = NEWLINE

\* b up to its last byte (or character) that is not LF.
BeforeTrailingLFs(b) ==
    LET last == CHOOSE k \in 0..Len(b) :
                    /\ k > 0 => b[k] # NEWLINE
                    /\ \A j \in (k + 1)..Len(b) : b[j] = NEWLINE
    IN  SubSeq(b, 1, last)

\* b from position i on, without the CRs that are directly followed by an LF.
RECURSIVE WithoutCRBeforeLF(_, _)
WithoutCRBeforeLF(b, i) ==
    IF i > Len(b) THEN << >>
    ELSE (IF b[i] = CARRIAGE_RETURN /\ i < Len(b) /\ b[i + 1] = NEWLINE
          THEN << >> ELSE <<b[i]>>) \o WithoutCRBeforeLF(b, i + 1)

IsFinding(m, name) == m # None /\ m[1].name = name

NoFix(m) == m[1].original = None /\ m[1].replacement = None

OffersReplacement(m) == m # None /\ m[1].replacement # None

----------------------------------------------------------------------------
(* C1 *)

\* C1: a valid-UTF-8 file ending in two or more LF bytes gets, on either
\* platform, exactly one finding, "Trailing newline"; its original is the
\* decoded file and its replacement is the file up to its last non-LF byte
\* followed by a single LF (CRs included, nothing else changed).
C1_TrailingNewlineFinding ==
    (Checked /\ WellFormedUtf8(content) /\ EndsInTwoLF(content)) =>
        /\ IsFinding(lint_message, "Trailing newline")
        /\ lint_messages = <<lint_message[1]>>
        /\ lint_message[1].original # None
        /\ lint_message[1].original[1] = decode(content).text
        /\ encode(lint_message[1].original[1]) = content
        /\ lint_message[1].replacement # None
        /\ encode(lint_message[1].replacement[1])
             = BeforeTrailingLFs(content) \o <<NEWLINE>>

\* U+00E9, CR, LF, LF, LF on the CRLF platform: the replacement keeps the CR.
C1_Witness ==
    /\ Checked
    /\ IS_WINDOWS
    /\ content = <<195, 169, CARRIAGE_RETURN, NEWLINE, NEWLINE>>
    /\ IsFinding(lint_message, "Trailing newline")
    /\ lint_message[1].replacement = Some(<<233, CARRIAGE_RETURN, NEWLINE>>)

----------------------------------------------------------------------------
(* C2 *)

\* The finding whose replacement was written before this run, in Spec.
Applied(name) == Len(applied) = 1 /\ applied[1].name = name

\* C2 as stated: after the replacement of a "Trailing newline" finding has
\* become the file, check_file yields no finding.
C2_Original ==
    (Checked /\ Applied("Trailing newline")) => lint_message = None

\* C2, amended: after the replacement of a "Trailing newline" finding has
\* become the file, check_file yields no "Trailing newline" and no "Decoding
\* failure" finding; it yields the one-byte-file finding if the file held only
\* LFs, otherwise a "DOS newline" finding if the platform is not the CRLF one
\* and a line of the file ends in CR LF, and otherwise no finding.
C2_RerunAfterTrailingFix ==
    (Checked /\ Applied("Trailing newline")) =>
        LET o == applied[1].original[1]
        IN  /\ content = BeforeTrailingLFs(encode(o)) \o <<NEWLINE>>
            /\ AllLF(o) =>
                 IsFinding(lint_message, "testestTrailing newline")
            /\ (~AllLF(o) /\ ~IS_WINDOWS /\ HasCRLF(o)) =>
                 IsFinding(lint_message, "DOS newline")
            /\ (~AllLF(o) /\ (IS_WINDOWS \/ ~HasCRLF(o))) =>
                 lint_message = None

\* "a" LF LF LF became "a" LF, which gets no finding.
C2_Witness ==
    /\ Checked
    /\ Applied("Trailing newline")
    /\ applied[1].original = Some(<<97, NEWLINE, NEWLINE, NEWLINE>>)
    /\ content = <<97, NEWLINE>>
    /\ lint_message = None

----------------------------------------------------------------------------
(* C3 *)

\* C3: off the CRLF platform, a valid-UTF-8 file with a line ending in CR LF
\* that is neither the single LF nor a file ending in two LFs gets a "DOS
\* newline" finding; its original is the decoded file and its replacement is
\* the file without the CRs that directly precede an LF.
C3_DosNewlineFinding ==
    (/\ Checked
     /\ ~IS_WINDOWS
     /\ WellFormedUtf8(content)
     /\ HasCRLF(content)
     /\ content # <<NEWLINE>>
     /\ ~EndsInTwoLF(content)) =>
        /\ IsFinding(lint_message, "DOS newline")
        /\ lint_message[1].original # None
        /\ lint_message[1].original[1] = decode(content).text
        /\ encode(lint_message[1].original[1]) = content
        /\ lint_message[1].replacement # None
        /\ encode(lint_message[1].replacement[1]) = WithoutCRBeforeLF(content, 1)

\* CR, "a", CR, CR, LF: only the CR before the LF goes.
C3_Witness ==
    /\ Checked
    /\ ~IS_WINDOWS
    /\ content = <<CARRIAGE_RETURN, 97, CARRIAGE_RETURN, CARRIAGE_RETURN, NEWLINE>>
    /\ IsFinding(lint_message, "DOS newline")
    /\ lint_message[1].replacement
         = Some(<<CARRIAGE_RETURN, 97, CARRIAGE_RETURN, NEWLINE>>)

----------------------------------------------------------------------------
(* C4 *)

\* C4 as stated: after the replacement of a "DOS newline" finding has become
\* the file, check_file yields no finding.
C4_Original ==
    (Checked /\ Applied("DOS newline")) => lint_message = None

\* C4, amended: after the replacement of a "DOS newline" finding has become
\* the file, which is the original without the CRs that directly precede an
\* LF, check_file yields no "Decoding failure"; it yields the one-byte-file
\* finding if that file is the single LF, a "Trailing newline" finding if it
\* ends in two LFs, a "DOS newline" finding if neither and a line of it still
\* ends in CR LF, and otherwise no finding.
C4_RerunAfterDosFix ==
    (Checked /\ Applied("DOS newline")) =>
        LET r == WithoutCRBeforeLF(encode(applied[1].original[1]), 1)
        IN  /\ content = r
            /\ ~IS_WINDOWS
            /\ r = <<NEWLINE>> =>
                 IsFinding(lint_message, "testestTrailing newline")
            /\ EndsInTwoLF(r) =>
                 IsFinding(lint_message, "Trailing newline")
            /\ (r # <<NEWLINE>> /\ ~EndsInTwoLF(r) /\ HasCRLF(r)) =>
                 IsFinding(lint_message, "DOS newline")
            /\ (r # <<NEWLINE>> /\ ~EndsInTwoLF(r) /\ ~HasCRLF(r)) =>
                 lint_message = None

\* CR LF "a" CR LF became LF "a" LF, which gets no finding.
C4_Witness ==
    /\ Checked
    /\ Applied("DOS newline")
    /\ applied[1].original
         = Some(<<CARRIAGE_RETURN, NEWLINE, 97, CARRIAGE_RETURN, NEWLINE>>)
    /\ content = <<NEWLINE, 97, NEWLINE>>
    /\ lint_message = None

----------------------------------------------------------------------------
(* C5 *)

\* C5 as stated: check_file returns the one-byte-file finding exactly when
\* the file is the single byte LF, and a file of one byte other than LF gets
\* no finding.
C5_Original ==
    Checked =>
        /\ IsFinding(lint_message, "testestTrailing newline")
             <=> content = <<NEWLINE>>
        /\ (Len(content) = 1 /\ content # <<NEWLINE>>) => lint_message = None

\* C5, amended: check_file returns the one-byte-file finding, with original
\* and replacement absent, exactly when the file is one byte long, whatever
\* the byte.
C5_SingleByteFinding ==
    Checked =>
        /\ IsFinding(lint_message, "testestTrailing newline")
             <=> Len(content) = 1
        /\ IsFinding(lint_message, "testestTrailing newline")
             => NoFix(lint_message)

\* The one-byte file "a" gets the finding.
C5_Witness ==
    /\ Checked
    /\ content = <<97>>
    /\ IsFinding(lint_message, "testestTrailing newline")
    /\ NoFix(lint_message)

----------------------------------------------------------------------------
(* C6 *)

\* The file reaches a path of check_file that decodes it.
ReachesFix(b, is_windows) ==
    EndsInTwoLF(b) \/ (~is_windows /\ ~EndsInTwoLF(b) /\ HasCRLF(b))

\* C6: check_file returns a "Decoding failure" finding, with original and
\* replacement absent, exactly when the file is not valid UTF-8 and ends in
\* two LFs or, off the CRLF platform, has a line ending in CR LF; no readable
\* file makes check_file raise.
C6_DecodeFailure ==
    /\ Checked =>
        /\ IsFinding(lint_message, "Decoding failure")
             <=> (~WellFormedUtf8(content) /\ ReachesFix(content, IS_WINDOWS))
        /\ IsFinding(lint_message, "Decoding failure") => NoFix(lint_message)
    /\ pc = "crashed" => ~files["p1"].readable

\* A lone continuation byte before CR LF, off the CRLF platform.
C6_Witness ==
    /\ Checked
    /\ ~IS_WINDOWS
    /\ content = <<169, CARRIAGE_RETURN, NEWLINE>>
    /\ IsFinding(lint_message, "Decoding failure")
    /\ NoFix(lint_message)

----------------------------------------------------------------------------
(* C7 *)

\* C7 as stated: on the CRLF platform a file that is not empty, not the
\* single byte LF and does not end in two LFs gets no finding.
C7_Original ==
    (/\ Checked
     /\ IS_WINDOWS
     /\ content # << >>
     /\ content # <<NEWLINE>>
     /\ ~EndsInTwoLF(content)) => lint_message = None

\* C7, amended: on the CRLF platform a file that is not empty, not one byte
\* long and does not end in two LFs gets no finding, however many of its
\* lines end in CR LF; and for an empty file, a one-byte file or a file
\* ending in two LFs check_file returns the same value on both platforms.
C7_WindowsSkipsDosCheck ==
    /\ (/\ Checked
        /\ IS_WINDOWS
        /\ Len(content) > 1
        /\ ~EndsInTwoLF(content)) => lint_message = None
    /\ (Checked /\ (Len(content) <= 1 \/ EndsInTwoLF(content))) =>
          Return(lint_message) = check_file("p1", files, ~IS_WINDOWS)

\* Two lines ending in CR LF on the CRLF platform: no finding.
C7_Witness ==
    /\ Checked
    /\ IS_WINDOWS
    /\ content = <<97, CARRIAGE_RETURN, NEWLINE, CARRIAGE_RETURN, NEWLINE>>
    /\ lint_message = None

----------------------------------------------------------------------------
(* C8 *)

\* The values check_file returns for the listed files, in order, without the
\* None ones.
RECURSIVE Findings(_)
Findings(names) ==
    IF names = << >> THEN << >>
    ELSE check_file(Head(names), files, IS_WINDOWS).value \o Findings(Tail(names))

AllReadable == \A i \in 1..Len(filenames) : files[filenames[i]].readable

IsPrefix(s, t) == Len(s) <= Len(t) /\ s = SubSeq(t, 1, Len(s))

\* C8: when every listed file can be read, what has been displayed is always
\* a prefix of the findings of the listed files in input order, with at most
\* one finding per file checked so far, and it is all of them when the run
\* ends.
C8_DisplayedInInputOrder ==
    AllReadable =>
        /\ IsPrefix(displayed, Findings(filenames))
        /\ Len(lint_messages) <= idx - 1
        /\ Len(displayed) <= Len(filenames)
        /\ pc = "done" => displayed = Findings(filenames)
        /\ pc # "crashed"

\* Three files, the second without a finding: two findings, in input order.
C8_Witness ==
    /\ pc = "done"
    /\ filenames = <<"p2", "p1", "p2">>
    /\ files["p1"] = File(<<97, NEWLINE>>)
    /\ files["p2"] = File(<<97, NEWLINE, NEWLINE>>)
    /\ Len(displayed) = 2
    /\ displayed[1].path = "p2"
    /\ displayed[2].path = "p2"

----------------------------------------------------------------------------
(* C9 *)

\* C9: a replacement is strictly shorter than its original, in characters and
\* in bytes; so at most as many replacements are written as the file had
\* bytes; and when check_file offers no replacement for what a valid-UTF-8
\* file has become, it returns no finding or the one-byte-file finding.
C9_FixLoopTerminates ==
    /\ (Checked /\ OffersReplacement(lint_message)) =>
          /\ Len(lint_message[1].replacement[1])
               < Len(lint_message[1].original[1])
          /\ Len(encode(lint_message[1].replacement[1])) < Len(content)
    /\ steps + Len(content) <= Len(initial["p1"].data)
    /\ (/\ Checked
        /\ WellFormedUtf8(initial["p1"].data)
        /\ ~OffersReplacement(lint_message)) =>
          \/ lint_message = None
          \/ IsFinding(lint_message, "testestTrailing newline")

\* CR CR LF CR LF is fixed three times (DOS, trailing, DOS) and ends as the
\* single LF, for which no replacement is offered.
C9_Witness ==
    /\ pc = "done"
    /\ initial["p1"].data = <<CARRIAGE_RETURN, CARRIAGE_RETURN, NEWLINE,
                              CARRIAGE_RETURN, NEWLINE>>
    /\ steps = 3
    /\ content = <<NEWLINE>>
    /\ ~OffersReplacement(lint_message)

----------------------------------------------------------------------------
(* C10 *)

SomeUnreadable == \E i \in 1..Len(filenames) : ~files[filenames[i]].readable

\* C10: when a listed file cannot be read, nothing is ever displayed; the run
\* ends at that file with the error, which adds no finding to the list.
C10_ReadFailureDisplaysNothing ==
    /\ SomeUnreadable =>
          /\ displayed = << >>
          /\ pc \in {"check", "crashed"}
    /\ pc = "crashed" =>
          /\ ~files[filenames[idx]].readable
          /\ lint_messages = Findings(SubSeq(filenames, 1, idx - 1))

\* The run ended at an unreadable second file; the finding already computed
\* for the first file was not displayed.
C10_Witness ==
    /\ pc = "crashed"
    /\ idx = 2
    /\ Len(lint_messages) = 1
    /\ displayed = << >>

====
